---- MODULE Spec2Model ----
(***************************************************************************)
(* Model of alphapy/data.py: loading and shuffling of the training set,    *)
(* class-ratio estimation and sampler dispatch, the intraday/daily feed    *)
(* readers and the feed loop over a group of symbols.                      *)
(*                                                                         *)
(* Text is modelled by what the code reads from it.  A comma separated     *)
(* field is a record [a, kind, v]:                                         *)
(*   a     the field starts with the character 'a'                         *)
(*   kind  what the rest of the field is: "int" (digits), "dec" (digits    *)
(*         followed by ".5") or "junk" (anything float() rejects)          *)
(*   v     the integer part of the number when kind is "int" or "dec"      *)
(* A float is a record [w, h]: w whole units plus h halves (h is 0 or 1).  *)
(* Exceptions are modelled by their class name; "none" is a normal return. *)
(***************************************************************************)
EXTENDS Integers, Sequences, FiniteSets, Bags, TLC

VARIABLES
    \* get_google_data
    symbol, lookback_period, fractal, response, url, interval, text, pos,
    records, day_item, offset, gdf, gerr, gpc,
    \* get_feed_data
    members, gfractal, idx, daily_data, fetched, allocated, ferr, fpc,
    \* sample_data
    sampling_method, sampling_ratio, target_value, model_X_train, model_y_train,
    X_train, y_train, ratio, sampler, serr, spc,
    \* get_data / shuffle_data
    frame, model_type, shuffle, hX_train, hy_train, X_old, y_old, hpc

gvars == <<symbol, lookback_period, fractal, response, url, interval, text, pos,
           records, day_item, offset, gdf, gerr, gpc>>
fvars == <<members, gfractal, idx, daily_data, fetched, allocated, ferr, fpc>>
svars == <<sampling_method, sampling_ratio, target_value, model_X_train,
           model_y_train, X_train, y_train, ratio, sampler, serr, spc>>
hvars == <<frame, model_type, shuffle, hX_train, hy_train, X_old, y_old, hpc>>
vars == <<gvars, fvars, svars, hvars>>

----------------------------------------------------------------------------
(* Bounds of the model *)

MaxLines == 3
MaxMembers == 2
MaxFeedLines == 3
MaxRows == 4
MaxFrameRows == 3

----------------------------------------------------------------------------
(* Generic helpers *)

BoundedSeq(S, n) == UNION {[1..k -> S] : k \in 0..n}

Range(s) == {s[i] : i \in 1..Len(s)}

Min(S) == CHOOSE x \in S : \A y \in S : x <= y

Max(S) == CHOOSE x \in S : \A y \in S : x >= y

----------------------------------------------------------------------------
(* Text fields and their conversions *)

Int_(v) == [a |-> FALSE, kind |-> "int", v |-> v]
Dec_(v) == [a |-> FALSE, kind |-> "dec", v |-> v]
Anchor_(v) == [a |-> TRUE, kind |-> "int", v |-> v]
Junk_ == [a |-> FALSE, kind |-> "junk", v |-> 0]

\* str[1:] of a field that starts with 'a'
DropFirst(item) == [item EXCEPT !.a = FALSE]

\* float(str) succeeds
IsFloat(item) == ~item.a /\ item.kind \in {"int", "dec"}

\* float(str)
ToFloat(item) == [w |-> item.v, h |-> IF item.kind = "dec" THEN 1 ELSE 0]

\* int(str) succeeds
IsInt(item) == ~item.a /\ item.kind = "int"

\* int(str)
ToInt(item) == item.v

----------------------------------------------------------------------------
(* get_google_data *)

toffset == 7
line_length == 6
max_days == 50
SecondsPerDay == 86400

\* 60 * int(re.findall('\d+', fractal)[0])
IntervalOf(f) == 60 * f.n

\* if lookback_period > max_days: lookback_period = max_days
ClampLookback(p) == IF p > max_days THEN max_days ELSE p

\* text[toffset:]
DataLines(t) == SubSeq(t, toffset + 1, Len(t))

\* if len(items) == line_length
AcceptLineLoose(items) == Len(items) >= line_length
AcceptLine(items) == Len(items) = line_length

\* The time marker of one line: returns the new day_item and offset, or the
\* exception the conversion raises.
DecodeMarkerNoReset(dt_item, day, off) ==
    IF dt_item.a
    THEN IF IsFloat(DropFirst(dt_item))
         THEN [err |-> "none", day_item |-> ToFloat(DropFirst(dt_item)), offset |-> off]
         ELSE [err |-> "ValueError", day_item |-> day, offset |-> off]
    ELSE IF IsFloat(dt_item)
         THEN [err |-> "none", day_item |-> day, offset |-> ToFloat(dt_item)]
         ELSE [err |-> "ValueError", day_item |-> day, offset |-> off]
DecodeMarker(dt_item, day, off) ==
    IF dt_item.a
    THEN IF IsFloat(DropFirst(dt_item))
         THEN [err |-> "none", day_item |-> ToFloat(DropFirst(dt_item)),
               offset |-> [w |-> 0, h |-> 0]]
         ELSE [err |-> "ValueError", day_item |-> day, offset |-> off]
    ELSE IF IsFloat(dt_item)
         THEN [err |-> "none", day_item |-> day, offset |-> ToFloat(dt_item)]
         ELSE [err |-> "ValueError", day_item |-> day, offset |-> off]

\* day_item before the first anchor line has assigned it
Unbound == [w |-> 0 - 1, h |-> 0]

\* day_item + (interval * offset); interval is a multiple of 60, so the half
\* of an offset is a whole number of seconds
Timestamp(day, ivl, off) ==
    [w |-> day.w + ivl * off.w + (ivl \div 2) * off.h, h |-> day.h]

\* dt.strftime('%Y-%m-%d'): the calendar day of a timestamp
DateOf(dt) == dt.w \div SecondsPerDay

\* One pass of the loop body over a line of the response.
\* st = [records, day_item, offset, err]
ProcessLine(st, items, ivl) ==
    IF st.err # "none" THEN st
    ELSE IF ~AcceptLine(items) THEN st
    ELSE LET m == DecodeMarker(items[1], st.day_item, st.offset) IN
         IF m.err # "none" THEN [st EXCEPT !.err = m.err]
         ELSE IF m.day_item = Unbound
         THEN [st EXCEPT !.offset = m.offset, !.err = "UnboundLocalError"]
         ELSE LET dt == Timestamp(m.day_item, ivl, m.offset) IN
              [records |-> Append(st.records,
                         [datetime |-> dt, date |-> DateOf(dt),
                          open |-> items[5], high |-> items[3],
                          low |-> items[4], close |-> items[2],
                          volume |-> items[6]]),
               day_item |-> m.day_item,
               offset |-> m.offset,
               err |-> "none"]

\* date_group.cumcount()
cumcountGlobal(dates) == [i \in 1..Len(dates) |-> i - 1]
cumcount(dates) ==
    [i \in 1..Len(dates) |-> Cardinality({j \in 1..(i - 1) : dates[j] = dates[i]})]

\* date_group.tail(1).index
tail1Runs(dates) ==
    {i \in 1..Len(dates) : i = Len(dates) \/ dates[i + 1] # dates[i]}
tail1(dates) ==
    {i \in 1..Len(dates) : \A j \in (i + 1)..Len(dates) : dates[j] # dates[i]}

\* The data frame built from the records: type conversion, bar numbers,
\* end-of-day marks, datetime index.
BuildFrame(recs) ==
    LET n == Len(recs)
        dates == [i \in 1..n |-> recs[i].date]
        bars == cumcount(dates)
        last == tail1(dates)
    IN  IF \E i \in 1..n : ~IsFloat(recs[i].open) \/ ~IsFloat(recs[i].high)
                           \/ ~IsFloat(recs[i].low) \/ ~IsFloat(recs[i].close)
        THEN [err |-> "ValueError", df |-> <<>>]
        ELSE IF \E i \in 1..n : ~IsInt(recs[i].volume)
        THEN [err |-> "ValueError", df |-> <<>>]
        ELSE [err |-> "none",
              df |-> [i \in 1..n |->
                        [datetime |-> recs[i].datetime,
                         open |-> ToFloat(recs[i].open),
                         high |-> ToFloat(recs[i].high),
                         low |-> ToFloat(recs[i].low),
                         close |-> ToFloat(recs[i].close),
                         volume |-> ToInt(recs[i].volume),
                         bar_number |-> bars[i],
                         end_of_day |-> i \in last]]]

\* str.upper() and str.lower() on the symbols of the model
Upper(s) == CASE s \in {"aapl", "AAPL"} -> "AAPL"
              [] s \in {"goog", "GOOG"} -> "GOOG"
Lower(s) == CASE s \in {"aapl", "AAPL"} -> "aapl"
              [] s \in {"goog", "GOOG"} -> "goog"

\* The whole function on a given response of the backend.
get_google_data(sym, period, f, resp) ==
    LET ivl == IntervalOf(f)
        lines == DataLines(resp)
        Loop[k \in 0..Len(lines)] ==
            IF k = 0
            THEN [records |-> <<>>, day_item |-> Unbound,
                  offset |-> [w |-> 0, h |-> 0], err |-> "none"]
            ELSE ProcessLine(Loop[k - 1], lines[k], ivl)
        st == Loop[Len(lines)]
    IN  IF st.err # "none" THEN [err |-> st.err, df |-> <<>>]
        ELSE BuildFrame(st.records)

(* Responses of the intraday backend *)

\* 2021-01-01 00:00:00 (1609459200) and the day after
Day1 == 18628 * SecondsPerDay
Day2 == 18629 * SecondsPerDay

HeaderLine == <<Junk_>>
ColumnsLine == <<Junk_, Junk_, Junk_, Junk_, Junk_, Junk_>>
Preamble == <<HeaderLine, HeaderLine, HeaderLine, HeaderLine, ColumnsLine,
              HeaderLine, HeaderLine>>

LineAnchor1 == <<Anchor_(Day1), Int_(10), Int_(12), Int_(9), Int_(11), Int_(1000)>>
LineAnchor2 == <<Anchor_(Day2), Dec_(10), Dec_(12), Dec_(9), Dec_(11), Int_(2000)>>
LineOffset60 == <<Int_(60), Dec_(10), Dec_(12), Dec_(9), Dec_(11), Int_(2000)>>
LineOffset288 == <<Int_(288), Int_(20), Int_(22), Int_(19), Int_(21), Int_(3000)>>
LineBadMarker == <<Junk_, Int_(10), Int_(12), Int_(9), Int_(11), Int_(1000)>>
LineBadPrice == <<Int_(60), Int_(10), Junk_, Int_(9), Int_(11), Int_(1000)>>
LineBadVolume == <<Int_(60), Int_(10), Int_(12), Int_(9), Int_(11), Dec_(1000)>>
LineFive == <<Anchor_(Day2), Int_(10), Int_(12), Int_(9), Int_(11)>>
LineSeven == <<Anchor_(Day2), Int_(10), Int_(12), Int_(9), Int_(11), Int_(1000), Int_(0)>>

Lines == {LineAnchor1, LineAnchor2, LineOffset60, LineOffset288, LineBadMarker,
          LineBadPrice, LineBadVolume, LineFive, LineSeven}

Responses == {Preamble \o d : d \in BoundedSeq(Lines, MaxLines)}
             \cup {SubSeq(Preamble, 1, k) : k \in 0..(toffset - 1)}

Requests == {[symbol |-> "aapl", lookback_period |-> 10, fractal |-> [n |-> 5, unit |-> "m"]],
             [symbol |-> "GOOG", lookback_period |-> 60, fractal |-> [n |-> 1, unit |-> "m"]]}

(* get_google_data, one step at a time *)

GIdle ==
    /\ symbol = "" /\ lookback_period = 0 /\ fractal = [n |-> 0, unit |-> ""]
    /\ response = <<>> /\ url = <<>> /\ interval = 0 /\ text = <<>> /\ pos = 0
    /\ records = <<>> /\ day_item = Unbound /\ offset = [w |-> 0, h |-> 0]
    /\ gdf = <<>> /\ gerr = "none" /\ gpc = "idle"

GInit ==
    /\ \E r \in Requests :
          /\ symbol = r.symbol
          /\ lookback_period = r.lookback_period
          /\ fractal = r.fractal
    /\ response \in Responses
    /\ url = <<>> /\ interval = 0 /\ text = <<>> /\ pos = 0
    /\ records = <<>> /\ day_item = Unbound /\ offset = [w |-> 0, h |-> 0]
    /\ gdf = <<>> /\ gerr = "none" /\ gpc = "request"

\* lines 314-330: the request and the split of the response into lines
Request ==
    /\ gpc = "request"
    /\ symbol' = Upper(symbol)
    /\ interval' = IntervalOf(fractal)
    /\ lookback_period' = ClampLookback(lookback_period)
    /\ url' = <<Upper(symbol), IntervalOf(fractal), ClampLookback(lookback_period)>>
    /\ text' = response
    /\ records' = <<>>
    /\ pos' = 0
    /\ gpc' = "loop"
    /\ UNCHANGED <<fractal, response, day_item, offset, gdf, gerr>>

\* lines 331-349: one iteration of the loop over text[toffset:]
LoopLine ==
    /\ gpc = "loop"
    /\ pos < Len(DataLines(text))
    /\ LET st == ProcessLine([records |-> records, day_item |-> day_item,
                              offset |-> offset, err |-> "none"],
                             DataLines(text)[pos + 1], interval)
       IN  /\ records' = st.records
           /\ day_item' = st.day_item
           /\ offset' = st.offset
           /\ gerr' = st.err
           /\ gpc' = IF st.err = "none" THEN "loop" ELSE "raised"
    /\ pos' = pos + 1
    /\ UNCHANGED <<symbol, lookback_period, fractal, response, url, interval, text, gdf>>

\* lines 350-368: the data frame
MakeFrame ==
    /\ gpc = "loop"
    /\ pos = Len(DataLines(text))
    /\ LET r == BuildFrame(records)
       IN  /\ gdf' = r.df
           /\ gerr' = r.err
           /\ gpc' = IF r.err = "none" THEN "done" ELSE "raised"
    /\ UNCHANGED <<symbol, lookback_period, fractal, response, url, interval, text,
                   pos, records, day_item, offset>>

----------------------------------------------------------------------------
(* get_yahoo_data *)

\* lambda x: x.lower().replace(' ', '') on the columns of the daily backend
RenameColumn(c) ==
    CASE c = "Date" -> "date"
      [] c = "Open" -> "open"
      [] c = "High" -> "high"
      [] c = "Low" -> "low"
      [] c = "Close" -> "close"
      [] c = "Adj Close" -> "adjclose"
      [] c = "Volume" -> "volume"

\* The frame of the daily backend with lower-case columns and the date as
\* the datetime index; an empty frame is returned as it is.
get_yahoo_data(sym, period, resp) ==
    IF Len(resp) > 0
    THEN [err |-> "none",
          df |-> [i \in 1..Len(resp) |->
                    LET renamed == [c \in {RenameColumn(k) : k \in DOMAIN resp[i]} |->
                                      resp[i][CHOOSE k \in DOMAIN resp[i] : RenameColumn(k) = c]]
                    IN  [c \in ((DOMAIN renamed) \ {"date"}) \cup {"datetime"} |->
                           IF c = "datetime" THEN renamed["date"] ELSE renamed[c]]]]
    ELSE [err |-> "none", df |-> resp]

(* Responses of the daily backend *)

YahooRow(day, price) ==
    [c \in {"Date", "Open", "High", "Low", "Close", "Adj Close", "Volume"} |->
       IF c = "Date" THEN [w |-> day, h |-> 0] ELSE [w |-> price, h |-> 0]]

YahooRows == {YahooRow(Day1, 10)}

YahooResponses == BoundedSeq(YahooRows, MaxFeedLines)

----------------------------------------------------------------------------
(* get_feed_data *)

\* lines 453-459: the frame allocated for one member, given what the feed
\* returned for it
AllocateAlways(alloc, item, space, df) ==
    Append(alloc, [name |-> Lower(item), space |-> space, df |-> df])
AllocateAsIs(alloc, item, space, df) ==
    IF Len(df) > 0
    THEN Append(alloc, [name |-> item, space |-> space, df |-> df])
    ELSE alloc
Allocate(alloc, item, space, df) ==
    IF Len(df) > 0
    THEN Append(alloc, [name |-> Lower(item), space |-> space, df |-> df])
    ELSE alloc

\* lines 447-459: the loop body for one member; r is the outcome of the feed
\* function, an exception of which leaves the loop and the function
MemberStepSwallow(st, item, space, r) ==
    [allocated |-> IF r.err = "none" THEN Allocate(st.allocated, item, space, r.df)
                   ELSE st.allocated,
     idx |-> st.idx + 1,
     err |-> "none"]
MemberStep(st, item, space, r) ==
    IF r.err # "none"
    THEN [allocated |-> st.allocated, idx |-> st.idx, err |-> r.err]
    ELSE [allocated |-> Allocate(st.allocated, item, space, r.df),
          idx |-> st.idx + 1,
          err |-> "none"]

Symbols == {"AAPL", "aapl", "GOOG"}

Fractals == {[n |-> 5, unit |-> "m"], [n |-> 1, unit |-> "d"]}

FeedLines == {LineAnchor1, LineOffset60, LineBadPrice}

FeedResponses == {Preamble \o d : d \in BoundedSeq(FeedLines, MaxFeedLines)}

LookbackPeriods == {60}

FInit ==
    /\ members \in BoundedSeq(Symbols, MaxMembers)
    /\ gfractal \in Fractals
    /\ idx = 0 /\ daily_data = FALSE /\ fetched = <<>> /\ allocated = <<>>
    /\ ferr = "none" /\ fpc = "start"

\* lines 435-445
ChooseFeed ==
    /\ fpc = "start"
    /\ daily_data' = (gfractal.unit = "d")
    /\ fpc' = "loop"
    /\ UNCHANGED <<members, gfractal, idx, fetched, allocated, ferr>>

FeedMember(r) ==
    LET item == members[idx + 1]
        st == MemberStep([allocated |-> allocated, idx |-> idx, err |-> "none"],
                         item, [fractal |-> gfractal], r)
    IN  /\ fetched' = Append(fetched, [item |-> item, err |-> r.err, df |-> r.df])
        /\ allocated' = st.allocated
        /\ idx' = st.idx
        /\ ferr' = st.err
        /\ fpc' = IF st.err = "none" THEN "loop" ELSE "raised"
        /\ UNCHANGED <<members, gfractal, daily_data>>

\* lines 447-459 with daily_data true
DailyMember ==
    /\ fpc = "loop" /\ idx < Len(members) /\ daily_data
    /\ \E resp \in YahooResponses, period \in LookbackPeriods :
          FeedMember(get_yahoo_data(members[idx + 1], period, resp))

\* lines 447-459 with daily_data false
IntradayMember ==
    /\ fpc = "loop" /\ idx < Len(members) /\ ~daily_data
    /\ \E resp \in FeedResponses, period \in LookbackPeriods :
          FeedMember(get_google_data(members[idx + 1], period, gfractal, resp))

\* line 461
FeedReturn ==
    /\ fpc = "loop" /\ idx = Len(members)
    /\ fpc' = "done"
    /\ UNCHANGED <<members, gfractal, idx, daily_data, fetched, allocated, ferr>>

----------------------------------------------------------------------------
(* sample_data *)

(* A ratio is a fraction <<numerator, denominator>> with a positive         *)
(* denominator.                                                             *)

\* sampling_ratio > 0.0
Positive(r) == r[1] > 0

\* uc[nontarget_index] / uc[target_index]
Divide(a, b) == <<a, b>>

\* ... - 1.0
MinusOne(r) == <<r[1] - r[2], r[2]>>

SameRatio(r, q) == r[1] * q[2] = q[1] * r[2]

\* np.unique(y_train, return_counts=True): the distinct values in sorted
\* order and the number of occurrences of each
Unique(y) ==
    LET vals == Range(y)
        rank(v) == Cardinality({u \in vals : u < v}) + 1
        uv == [i \in 1..Cardinality(vals) |-> CHOOSE v \in vals : rank(v) = i]
    IN  [uv |-> uv,
         uc |-> [i \in 1..Len(uv) |-> Cardinality({k \in 1..Len(y) : y[k] = uv[i]})]]

\* np.where(cond)[0][0]: the first index of the set, IndexError when empty
FirstIndex(S) == IF S = {} THEN [err |-> "IndexError", i |-> 0]
                 ELSE [err |-> "none", i |-> Min(S)]

\* lines 232-235
EstimateRatioZero(y, target) ==
    LET u == Unique(y)
        ti == FirstIndex({i \in 1..Len(u.uv) : u.uv[i] = target})
        ni == FirstIndex({i \in 1..Len(u.uv) : u.uv[i] # target})
    IN  IF ti.err # "none" \/ ni.err # "none" THEN [err |-> "none", ratio |-> <<0, 1>>]
        ELSE [err |-> "none", ratio |-> MinusOne(Divide(u.uc[ni.i], u.uc[ti.i]))]
EstimateRatioLast(y, target) ==
    LET u == Unique(y)
        ti == FirstIndex({i \in 1..Len(u.uv) : u.uv[i] = target})
        ni == {i \in 1..Len(u.uv) : u.uv[i] # target}
    IN  IF ti.err # "none" THEN [err |-> ti.err, ratio |-> <<0, 1>>]
        ELSE IF ni = {} THEN [err |-> "IndexError", ratio |-> <<0, 1>>]
        ELSE [err |-> "none", ratio |-> MinusOne(Divide(u.uc[Max(ni)], u.uc[ti.i]))]
EstimateRatio(y, target) ==
    LET u == Unique(y)
        ti == FirstIndex({i \in 1..Len(u.uv) : u.uv[i] = target})
        ni == FirstIndex({i \in 1..Len(u.uv) : u.uv[i] # target})
    IN  IF ti.err # "none" THEN [err |-> ti.err, ratio |-> <<0, 1>>]
        ELSE IF ni.err # "none" THEN [err |-> ni.err, ratio |-> <<0, 1>>]
        ELSE [err |-> "none", ratio |-> MinusOne(Divide(u.uc[ni.i], u.uc[ti.i]))]

\* lines 229-235
CalcRatio(configured, y, target) ==
    IF Positive(configured) THEN [err |-> "none", ratio |-> configured]
    ELSE EstimateRatio(y, target)

NoSampler == [cls |-> "", ratio |-> <<>>, opt |-> ""]
NoError == [type |-> "none", msg |-> <<>>]

Sampler(cls, r, opt) == [err |-> NoError, sampler |-> [cls |-> cls, ratio |-> r, opt |-> opt]]

\* lines 241-268
ChooseSamplerDefault(method, r) ==
    Sampler("RandomUnderSampler", <<>>, "")
ChooseSampler(method, r) ==
    CASE method = "under_random" -> Sampler("RandomUnderSampler", <<>>, "")
      [] method = "under_tomek" -> Sampler("TomekLinks", <<>>, "")
      [] method = "under_cluster" -> Sampler("ClusterCentroids", <<>>, "")
      [] method = "under_nearmiss" -> Sampler("NearMiss", <<>>, "version=1")
      [] method = "under_ncr" -> Sampler("NeighbourhoodCleaningRule", <<>>, "size_ngh=51")
      [] method = "over_random" -> Sampler("RandomOverSampler", r, "")
      [] method = "over_smote" -> Sampler("SMOTE", r, "kind=regular")
      [] method = "over_smoteb" -> Sampler("SMOTE", r, "kind=borderline1")
      [] method = "over_smotesv" -> Sampler("SMOTE", r, "kind=svm")
      [] method = "overunder_smote_tomek" -> Sampler("SMOTETomek", r, "")
      [] method = "overunder_smote_enn" -> Sampler("SMOTEENN", r, "")
      [] method = "ensemble_easy" -> Sampler("EasyEnsemble", <<>>, "")
      [] method = "ensemble_bc" -> Sampler("BalanceCascade", <<>>, "")
      [] OTHER -> [err |-> [type |-> "ValueError",
                            msg |-> <<"Unknown Sampling Method", method>>],
                   sampler |-> NoSampler]

SupportedMethods ==
    {"under_random", "under_tomek", "under_cluster", "under_nearmiss", "under_ncr",
     "over_random", "over_smote", "over_smoteb", "over_smotesv",
     "overunder_smote_tomek", "overunder_smote_enn", "ensemble_easy", "ensemble_bc"}

UnknownMethods == {"over_adasyn", "none"}

Labels == {0, 1, 2}

Targets == {0, 1, 2}

ConfiguredRatios == {<<0, 1>>, <<3, 2>>}

\* sampler.fit_sample(X_train, y_train): the label vectors a sampler of the
\* library may return: the same rows, one row removed, or one row added with
\* a label of the training set.  A row of X added or kept by the sampler is
\* written 0 when it is not a row of the training set.
Resampled(X, y) ==
    {[X |-> X, y |-> y]}
    \cup (IF Len(y) > 0
          THEN {[X |-> SubSeq(X, 1, Len(X) - 1), y |-> SubSeq(y, 1, Len(y) - 1)]}
          ELSE {})
    \cup {[X |-> Append(X, 0), y |-> Append(y, v)] : v \in Range(y)}

SInit ==
    /\ sampling_method \in SupportedMethods \cup UnknownMethods
    /\ sampling_ratio \in ConfiguredRatios
    /\ target_value \in Targets
    /\ model_y_train \in BoundedSeq(Labels, MaxRows)
    /\ model_X_train = [i \in 1..Len(model_y_train) |-> i]
    /\ X_train = <<>> /\ y_train = <<>> /\ ratio = <<0, 1>>
    /\ sampler = NoSampler /\ serr = NoError /\ spc = "start"

\* lines 217-237: the parameters, the training set and the ratio
SamplingRatio ==
    /\ spc = "start"
    /\ X_train' = model_X_train
    /\ y_train' = model_y_train
    /\ LET r == CalcRatio(sampling_ratio, model_y_train, target_value)
       IN  /\ ratio' = r.ratio
           /\ serr' = [type |-> r.err, msg |-> <<>>]
           /\ spc' = IF r.err = "none" THEN "choose" ELSE "raised"
    /\ UNCHANGED <<sampling_method, sampling_ratio, target_value, model_X_train,
                   model_y_train, sampler>>

\* lines 241-268: the sampler of the method
SamplingMethod ==
    /\ spc = "choose"
    /\ LET c == ChooseSampler(sampling_method, ratio)
       IN  /\ sampler' = c.sampler
           /\ serr' = c.err
           /\ spc' = IF c.err.type = "none" THEN "fit" ELSE "raised"
    /\ UNCHANGED <<sampling_method, sampling_ratio, target_value, model_X_train,
                   model_y_train, X_train, y_train, ratio>>

\* lines 272-282: the sampled training set is stored in the model
FitSample ==
    /\ spc = "fit"
    /\ \E s \in Resampled(X_train, y_train) :
          /\ model_X_train' = s.X
          /\ model_y_train' = s.y
    /\ spc' = "done"
    /\ UNCHANGED <<sampling_method, sampling_ratio, target_value, X_train, y_train,
                   ratio, sampler, serr>>

----------------------------------------------------------------------------
(* get_data and shuffle_data *)

(* The frame read from the file is [has_target, rows]: has_target says      *)
(* whether the target is one of its columns, and a row is [x, t] with x the *)
(* features of the row and t its target cell, NaN or <<value>>.             *)

NaN == <<>>

\* np.empty([0, 0]): the labels when there are none
NoLabels == <<>>

\* LabelEncoder().fit_transform(y): the rank of each label among the
\* distinct labels in sorted order, from 0
LabelEncode(y) ==
    [i \in 1..Len(y) |-> Cardinality({u \in Range(y) : u[1] < y[i][1]})]

\* lines 117-145: the features and the labels of a frame
get_data(df, mtype) ==
    LET col == [i \in 1..Len(df.rows) |-> df.rows[i].t]
        nan_count == Cardinality({i \in 1..Len(col) : col[i] = NaN})
        y == IF df.has_target /\ nan_count = 0
             THEN IF mtype = "classification" THEN LabelEncode(col) ELSE col
             ELSE NoLabels
    IN  [X |-> [i \in 1..Len(df.rows) |-> df.rows[i].x], y |-> y]

\* np.random.permutation(n) for some seed
permutation(n) ==
    {p \in [1..n -> 1..n] : \A i, j \in 1..n : p[i] = p[j] => i = j}

\* a[new_indices]: the rows of an array at the given indices
TakeRows(a, new_indices) == [i \in 1..Len(new_indices) |-> a[new_indices[i]]]

\* y_train.size
SizeOf(a) == Len(a)

FeatureRows == {1, 2}

TargetCells == {NaN, <<0>>, <<1>>}

TrainFrames ==
    [has_target : BOOLEAN,
     rows : BoundedSeq([x : FeatureRows, t : TargetCells], MaxFrameRows)]

HInit ==
    /\ frame \in TrainFrames
    /\ model_type \in {"classification", "regression"}
    /\ shuffle \in BOOLEAN
    /\ hX_train = <<>> /\ hy_train = <<>> /\ X_old = <<>> /\ y_old = <<>>
    /\ hpc = "load"

\* get_data for the training partition; the result becomes model.X_train and
\* model.y_train
LoadTrain ==
    /\ hpc = "load"
    /\ LET d == get_data(frame, model_type)
       IN  /\ hX_train' = d.X
           /\ hy_train' = d.y
    /\ hpc' = "loaded"
    /\ UNCHANGED <<frame, model_type, shuffle, X_old, y_old>>

\* lines 169-188 with shuffle true
Shuffle ==
    /\ hpc = "loaded" /\ shuffle
    /\ X_old' = hX_train
    /\ y_old' = hy_train
    /\ \E new_indices \in permutation(SizeOf(hy_train)) :
          /\ hX_train' = TakeRows(hX_train, new_indices)
          /\ hy_train' = TakeRows(hy_train, new_indices)
    /\ hpc' = "shuffled"
    /\ UNCHANGED <<frame, model_type, shuffle>>

\* lines 169-188 with shuffle false
SkipShuffle ==
    /\ hpc = "loaded" /\ ~shuffle
    /\ X_old' = hX_train
    /\ y_old' = hy_train
    /\ hpc' = "shuffled"
    /\ UNCHANGED <<frame, model_type, shuffle, hX_train, hy_train>>

----------------------------------------------------------------------------
(* Specifications *)

\* The other functions are not running
FIdle ==
    /\ members = <<>> /\ gfractal = [n |-> 0, unit |-> ""] /\ idx = 0
    /\ daily_data = FALSE /\ fetched = <<>> /\ allocated = <<>>
    /\ ferr = "none" /\ fpc = "idle"

SIdle ==
    /\ sampling_method = "" /\ sampling_ratio = <<0, 1>> /\ target_value = 0
    /\ model_X_train = <<>> /\ model_y_train = <<>> /\ X_train = <<>>
    /\ y_train = <<>> /\ ratio = <<0, 1>> /\ sampler = NoSampler
    /\ serr = NoError /\ spc = "idle"

HIdle ==
    /\ frame = <<>> /\ model_type = "" /\ shuffle = FALSE /\ hX_train = <<>>
    /\ hy_train = <<>> /\ X_old = <<>> /\ y_old = <<>> /\ hpc = "idle"

InitGoogle == GInit /\ FIdle /\ SIdle /\ HIdle

NextGoogle ==
    \/ Request /\ UNCHANGED <<fvars, svars, hvars>>
    \/ LoopLine /\ UNCHANGED <<fvars, svars, hvars>>
    \/ MakeFrame /\ UNCHANGED <<fvars, svars, hvars>>

SpecGoogle == InitGoogle /\ [][NextGoogle]_vars

InitFeed == FInit /\ GIdle /\ SIdle /\ HIdle

NextFeed ==
    \/ ChooseFeed /\ UNCHANGED <<gvars, svars, hvars>>
    \/ DailyMember /\ UNCHANGED <<gvars, svars, hvars>>
    \/ IntradayMember /\ UNCHANGED <<gvars, svars, hvars>>
    \/ FeedReturn /\ UNCHANGED <<gvars, svars, hvars>>

SpecFeed == InitFeed /\ [][NextFeed]_vars

InitSample == SInit /\ GIdle /\ FIdle /\ HIdle

NextSample ==
    \/ SamplingRatio /\ UNCHANGED <<gvars, fvars, hvars>>
    \/ SamplingMethod /\ UNCHANGED <<gvars, fvars, hvars>>
    \/ FitSample /\ UNCHANGED <<gvars, fvars, hvars>>

SpecSample == InitSample /\ [][NextSample]_vars

InitShuffle == HInit /\ GIdle /\ FIdle /\ SIdle

NextShuffle ==
    \/ LoadTrain /\ UNCHANGED <<gvars, fvars, svars>>
    \/ Shuffle /\ UNCHANGED <<gvars, fvars, svars>>
    \/ SkipShuffle /\ UNCHANGED <<gvars, fvars, svars>>

SpecShuffle == InitShuffle /\ [][NextShuffle]_vars

----------------------------------------------------------------------------
(* Properties of get_google_data *)

HasSixFields(line) == Len(line) = 6

\* The data lines the loop has gone through, and those of them with 6 fields
Processed == SubSeq(DataLines(text), 1, pos)
SixProcessed == SelectSeq(Processed, HasSixFields)

Marker(line) == line[1]
Whole(n) == [w |-> n, h |-> 0]
IsNumber(item) == item.kind \in {"int", "dec"}

\* C1: an anchor line sets day_item to the epoch value after the 'a' and gets
\* that timestamp; a line with a numeric marker that follows at least one
\* anchor line gets the day of the most recent anchor line before it plus
\* interval * its own marker.  Every such line gets a record.
C1_Timestamps ==
    LET six == SixProcessed IN
    \A i \in 1..Len(six) :
        LET m == Marker(six[i])
            anchors == {k \in 1..(i - 1) : Marker(six[k]).a}
        IN  /\ ((\A k \in 1..i : IsNumber(Marker(six[k]))) /\ Marker(six[1]).a)
                  => Len(records) >= i
            /\ (i <= Len(records) /\ m.a)
                  => /\ records[i].datetime = Whole(m.v)
                     /\ (i = Len(six) => day_item = Whole(m.v))
            /\ (i <= Len(records) /\ ~m.a /\ anchors # {})
                  => /\ records[i].datetime =
                            Whole(Marker(six[Max(anchors)]).v + interval * m.v)
                     /\ (i = Len(six) => day_item = Whole(Marker(six[Max(anchors)]).v))

\* Two anchor lines of different days, then an offset line: the offset counts
\* from the second anchor (interval 300: Day2 + 300 * 60).
WitnessC1 ==
    /\ gpc = "done" /\ interval = 300 /\ Len(records) = 3
    /\ records[1].datetime = Whole(Day1)
    /\ records[2].datetime = Whole(Day2)
    /\ records[3].datetime = Whole(Day2 + 300 * 60)

\* C2: in the returned table the rows of each calendar date carry the bar
\* numbers 0, 1, 2, ... in arrival order, and end_of_day is true on the last
\* row of the date and on no other.
C2_BarNumbers ==
    gpc = "done" =>
        LET n == Len(gdf)
            dateOf(i) == DateOf(gdf[i].datetime)
        IN  \A d \in {dateOf(i) : i \in 1..n} :
                LET rows == {i \in 1..n : dateOf(i) = d} IN
                /\ {gdf[i].bar_number : i \in rows} = 0..(Cardinality(rows) - 1)
                /\ \A i, j \in rows : i < j => gdf[i].bar_number < gdf[j].bar_number
                /\ \A i \in rows : gdf[i].end_of_day <=> (i = Max(rows))

\* Three rows, the first and the third of one date and the second of another.
WitnessC2 ==
    /\ gpc = "done" /\ Len(gdf) = 3
    /\ DateOf(gdf[1].datetime) = DateOf(gdf[3].datetime)
    /\ DateOf(gdf[1].datetime) # DateOf(gdf[2].datetime)
    /\ <<gdf[1].bar_number, gdf[2].bar_number, gdf[3].bar_number>> = <<0, 0, 1>>
    /\ <<gdf[1].end_of_day, gdf[2].end_of_day, gdf[3].end_of_day>> = <<FALSE, TRUE, TRUE>>

\* A 6-field line the function cannot turn into a row
BadNumbers(line) ==
    \/ \E k \in 2..5 : ~IsFloat(line[k])
    \/ ~IsInt(line[6])

\* C3: a data line whose field count is not 6 neither raises nor changes
\* anything: while no exception is raised there is one record per 6-field
\* line gone through, in input order; an exception comes from a 6-field
\* line; the returned table has one row per 6-field data line, in order.
C3_MalformedLines ==
    LET six == SixProcessed IN
    /\ gpc \in {"loop", "done"}
          => /\ Len(records) = Len(six)
             /\ \A i \in 1..Len(six) :
                    /\ <<records[i].close, records[i].high, records[i].low,
                          records[i].open, records[i].volume>> = SubSeq(six[i], 2, 6)
                    /\ Marker(six[i]).a => records[i].datetime = Whole(Marker(six[i]).v)
    /\ (gpc = "raised" /\ pos > 0 /\ ~HasSixFields(Processed[pos]))
          => (pos = Len(DataLines(text)) /\ \E i \in 1..Len(six) : BadNumbers(six[i]))
    /\ gpc = "done"
          => /\ Len(gdf) = Len(six)
             /\ \A i \in 1..Len(six) :
                    /\ gdf[i].datetime = records[i].datetime
                    /\ <<gdf[i].close, gdf[i].high, gdf[i].low, gdf[i].open>>
                         = [k \in 1..4 |-> ToFloat(six[i][k + 1])]
                    /\ gdf[i].volume = six[i][6].v

\* One 5-field line between two well-formed lines: two rows, no exception.
WitnessC3 ==
    /\ gpc = "done"
    /\ Len(DataLines(text)) = 3
    /\ Len(DataLines(text)[2]) = 5
    /\ Len(gdf) = 2

----------------------------------------------------------------------------
(* Properties of get_feed_data *)

\* The frames the first k members visited call for: one per member whose
\* table has a row, under the lower-cased symbol, in the order of the group
ExpectedFrames(k) ==
    LET Exp[j \in 0..k] ==
            IF j = 0 THEN <<>>
            ELSE IF fetched[j].err = "none" /\ Len(fetched[j].df) > 0
                 THEN Append(Exp[j - 1], <<Lower(members[j]), fetched[j].df>>)
                 ELSE Exp[j - 1]
    IN  Exp[k]

AllocatedFrames == [i \in 1..Len(allocated) |-> <<allocated[i].name, allocated[i].df>>]

\* C4 as stated: a member whose feed function raises a conversion error is
\* skipped, and get_feed_data goes on and returns without raising.
C4_Original ==
    \A i \in 1..Len(fetched) :
        fetched[i].err = "ValueError" => (fpc \in {"loop", "done"} /\ ferr = "none")

\* C4 amended: an exception of the feed function for a member leaves
\* get_feed_data with that exception: the member is the last one visited, no
\* frame is allocated for it, and the frames allocated are those of the
\* members before it.
C4_FailureAborts ==
    \A i \in 1..Len(fetched) :
        fetched[i].err # "none"
          => /\ i = Len(fetched)
             /\ fpc = "raised"
             /\ ferr = fetched[i].err
             /\ idx = i - 1
             /\ AllocatedFrames = ExpectedFrames(i - 1)

\* The first of two members fails to convert: no frame is allocated and the
\* second member is never visited.
WitnessC4 ==
    /\ fpc = "raised" /\ ferr = "ValueError"
    /\ Len(members) = 2 /\ Len(fetched) = 1
    /\ fetched[1].err = "ValueError"
    /\ allocated = <<>>

\* C5: while no feed function raises, the members are visited in the order
\* of the group, a frame is allocated for exactly the members whose table
\* has at least one row, each under the lower-cased symbol, and the function
\* returns after the last member without raising.
C5_Registration ==
    (\A i \in 1..Len(fetched) : fetched[i].err = "none")
      => /\ fpc # "raised" /\ ferr = "none"
         /\ idx = Len(fetched)
         /\ \A i \in 1..Len(fetched) : fetched[i].item = members[i]
         /\ AllocatedFrames = ExpectedFrames(Len(fetched))
         /\ fpc = "done" => Len(fetched) = Len(members)

\* Two members, the first with an empty table and the second with 3 rows:
\* one frame, that of the second.
WitnessC5 ==
    /\ fpc = "done" /\ Len(members) = 2
    /\ fetched[1].err = "none" /\ Len(fetched[1].df) = 0
    /\ fetched[2].err = "none" /\ Len(fetched[2].df) = 3
    /\ Len(allocated) = 1
    /\ allocated[1].name = Lower(members[2])
    /\ allocated[1].df = fetched[2].df

\* C9 as stated: no name is registered twice in one run, whatever the
\* members are.
C9_Original ==
    \A i, j \in 1..Len(allocated) : i # j => allocated[i].name # allocated[j].name

\* C9 amended: a frame is allocated at most once per member visited, under
\* the lower-cased symbol of that member; so no name is registered twice when
\* the lower-cased symbols of the members differ from one another.
C9_OncePerMember ==
    /\ \A n \in {allocated[i].name : i \in 1..Len(allocated)} :
            Cardinality({i \in 1..Len(allocated) : allocated[i].name = n})
              <= Cardinality({i \in 1..Len(fetched) : Lower(members[i]) = n})
    /\ (\A i, j \in 1..Len(members) : i # j => Lower(members[i]) # Lower(members[j]))
          => \A i, j \in 1..Len(allocated) :
                 i # j => allocated[i].name # allocated[j].name

\* Two members that differ in letter case only, both with data: the name is
\* registered twice.
WitnessC9 ==
    /\ fpc = "done"
    /\ members = <<"AAPL", "aapl">>
    /\ Len(allocated) = 2
    /\ allocated[1].name = "aapl" /\ allocated[2].name = "aapl"

----------------------------------------------------------------------------
(* Properties of sample_data *)

CountOf(y, v) == Cardinality({k \in 1..Len(y) : y[k] = v})

NamesMethod(e, method) ==
    e.type = "ValueError" /\ e.msg = <<"Unknown Sampling Method", method>>

\* the ratio can be estimated from the labels
Estimable(y, target) == target \in Range(y) /\ Range(y) \ {target} # {}

ModelUntouched == model_X_train = X_train /\ model_y_train = y_train

\* C6 as stated: with a method that is not supported the function fails
\* with the error that names the method, whatever the ratio and the labels.
C6_Original ==
    (sampling_method \notin SupportedMethods /\ spc \in {"raised", "done"})
      => /\ spc = "raised"
         /\ NamesMethod(serr, sampling_method)
         /\ ModelUntouched

\* C6 amended: with a method that is not supported the function fails, no
\* sampler is made and the training set of the model stays as it was; the
\* error names the method when the configured ratio is positive or the
\* ratio can be estimated, and is the IndexError of the estimation otherwise.
C6_UnknownMethod ==
    (sampling_method \notin SupportedMethods /\ spc # "start")
      => /\ spc \in {"choose", "raised"}
         /\ sampler = NoSampler
         /\ ModelUntouched
         /\ spc = "raised"
               => IF Positive(sampling_ratio) \/ Estimable(y_train, target_value)
                  THEN NamesMethod(serr, sampling_method)
                  ELSE serr.type = "IndexError"

\* An unknown method with the ratio estimated from the labels.
WitnessC6 ==
    /\ spc = "raised" /\ sampling_method = "over_adasyn"
    /\ ~Positive(sampling_ratio) /\ Len(y_train) = 2
    /\ NamesMethod(serr, "over_adasyn")
    /\ ModelUntouched

\* C7 as stated: with the ratio to be estimated and no label equal to the
\* target value the function fails with a ZeroDivisionError.
C7_Original ==
    (spc # "start" /\ ~Positive(sampling_ratio) /\ CountOf(y_train, target_value) = 0)
      => (spc = "raised" /\ serr.type = "ZeroDivisionError")

\* C7 amended: in that case the function fails with an IndexError, before
\* any sampler is made, and the training set of the model stays as it was.
C7_NoTarget ==
    (spc # "start" /\ ~Positive(sampling_ratio) /\ CountOf(y_train, target_value) = 0)
      => /\ spc = "raised"
         /\ serr.type = "IndexError"
         /\ sampler = NoSampler
         /\ ModelUntouched

\* A supported method, labels without the target value.
WitnessC7 ==
    /\ spc = "raised" /\ sampling_method = "over_smote"
    /\ ~Positive(sampling_ratio)
    /\ y_train = <<0, 0, 2>> /\ target_value = 1
    /\ serr.type = "IndexError"

\* C8: a positive configured ratio is used as it is; otherwise the ratio
\* plus one is the count of the smallest label other than the target value
\* divided by the count of the target value, and the ratio is 0 exactly when
\* the two counts are equal.
C8_Ratio ==
    spc \in {"choose", "fit", "done"}
      => IF Positive(sampling_ratio) THEN ratio = sampling_ratio
         ELSE LET others == Range(y_train) \ {target_value}
                  t == CountOf(y_train, target_value)
              IN  /\ t > 0 /\ others # {} /\ ratio[2] > 0
                  /\ (ratio[1] + ratio[2]) * t = CountOf(y_train, Min(others)) * ratio[2]
                  /\ (ratio[1] = 0) <=> (CountOf(y_train, Min(others)) = t)

\* y = [0, 0, 0, 1] with target 1: the ratio is 2.
WitnessC8 ==
    /\ spc = "choose" /\ ~Positive(sampling_ratio)
    /\ y_train = <<0, 0, 0, 1>> /\ target_value = 1
    /\ SameRatio(ratio, <<2, 1>>)

----------------------------------------------------------------------------
(* Properties of shuffle_data *)

BagOf(s) == [v \in Range(s) |-> Cardinality({i \in 1..Len(s) : s[i] = v})]

Pairs(X, y) == [i \in 1..Len(y) |-> <<X[i], y[i]>>]

\* C10: shuffle_data changes the order of the training set only: the number
\* of rows of X_train, its rows, and the pairs of row and label are the same
\* before and after, also with the empty labels; without shuffle nothing
\* changes.
C10_ContentKept ==
    hpc = "shuffled"
      => /\ Len(hX_train) = Len(X_old)
         /\ BagOf(hX_train) = BagOf(X_old)
         /\ Len(hy_train) = Len(y_old)
         /\ Len(hy_train) <= Len(hX_train)
               => BagOf(Pairs(hX_train, hy_train)) = BagOf(Pairs(X_old, y_old))
         /\ ~shuffle => (hX_train = X_old /\ hy_train = y_old)

====
